---- MODULE Spec2Model ----
(***************************************************************************)
(* Model of the two payment handlers of felixcraft-site                    *)
(* (src/api/verify-crypto.js):                                             *)
(*   - the crypto payment verifier (lines 1-187): validates a buyer's      *)
(*     {email, txHash}, fetches the transaction receipt over JSON-RPC,     *)
(*     scans its logs for a USDC transfer and sends the download email;    *)
(*   - the card webhook handler (lines 189-300): verifies the processor's  *)
(*     signature, checks the paid amount and sends the download email.     *)
(* One request is handled per behaviour; the handlers keep no state        *)
(* across requests.  JavaScript strings are TLA+ strings; `undefined` is   *)
(* the sentinel Undefined.                                                 *)
(***************************************************************************)
EXTENDS Integers, Sequences, FiniteSets, TLC

VARIABLES
    handler,        \* which of the two exported handlers serves the request
    env,            \* process configuration (environment variables)
    req,            \* the incoming request
    pc,             \* position of the handler: "start", "awaitBody", "awaitRpc",
                    \* "awaitEmail", "done", "crashed"
    chunksRead,     \* chunks of the request stream consumed by the crypto handler
    bodyRead,       \* outcome of reading the request stream: "none", "ok", "failed"
    res,            \* the HTTP response written so far (status 0: none yet)
    rpcCalls,       \* number of fetch() calls made to the RPC node
    rpcReturned,    \* the awaited RPC call has settled
    txReceipt,      \* what the RPC call produced
    transfer,       \* result of verifyUSDCTransfer, once called
    logsInspected,  \* verifyUSDCTransfer has been called
    emailAttempts,  \* number of resend.emails.send() calls made
    emailOk,        \* outcome of the settled email send: "none", "sent", "failed"
    threw           \* an exception reached the outer catch of the crypto handler

vars == <<handler, env, req, pc, chunksRead, bodyRead, res, rpcCalls, rpcReturned,
          txReceipt, transfer, logsInspected, emailAttempts, emailOk, threw>>

----------------------------------------------------------------------------
(* Program constants *)

USDC_CONTRACT == "0x833589fCD6eDb6E08f4c7C32D4f71b54bdA02913"
MIN_AMOUNT == 28000000
MAX_AMOUNT == 35000000
DOWNLOAD_URL == "https://felixcraft.ai/dl/c5768e3409026bab01bb1649.pdf"
THANK_YOU_URL == "https://felixcraft.ai/168a1eb2dd92fd596ac191d4"
TRANSFER_TOPIC == "0xddf252ad1be2c89b69c2b068fc378daa952ba7f163c4a11628f55a4df523b3ef"
USDC_DECIMALS == 1000000
TxHashHexLen == 64
TopicAddrOffset == 26
CardMinCents == 2800
CardMaxCents == 3100

(* Bounds of the model *)
MaxLogs == 2
MaxChunks == 2
AmountSlack == 1

Undefined == "<undefined>"

----------------------------------------------------------------------------
(* JavaScript string primitives *)

CharAt(s, i) == SubSeq(s, i, i)

\* c repeated n times (halving keeps the evaluation shallow)
RECURSIVE Rep(_, _)
Rep(c, n) ==
    IF n <= 0 THEN ""
    ELSE IF n = 1 THEN c
    ELSE Rep(c, n \div 2) \o Rep(c, n - (n \div 2))

HexDigits == {"0","1","2","3","4","5","6","7","8","9",
              "a","b","c","d","e","f","A","B","C","D","E","F"}

UpperLetters ==
    {"A","B","C","D","E","F","G","H","I","J","K","L","M",
     "N","O","P","Q","R","S","T","U","V","W","X","Y","Z"}

LowerOf ==
    [A |-> "a", B |-> "b", C |-> "c", D |-> "d", E |-> "e", F |-> "f", G |-> "g",
     H |-> "h", I |-> "i", J |-> "j", K |-> "k", L |-> "l", M |-> "m", N |-> "n",
     O |-> "o", P |-> "p", Q |-> "q", R |-> "r", S |-> "s", T |-> "t", U |-> "u",
     V |-> "v", W |-> "w", X |-> "x", Y |-> "y", Z |-> "z"]

\* the lower-case form of one character: only A-Z change
LowerChar(c) == IF c \in UpperLetters THEN LowerOf[c] ELSE c

\* String.prototype.toLowerCase, character by character
RECURSIVE toLowerCase(_)
toLowerCase(s) ==
    IF Len(s) = 0 THEN ""
    ELSE IF Len(s) = 1 THEN LowerChar(s)
    ELSE LET mid == Len(s) \div 2
         IN  toLowerCase(SubSeq(s, 1, mid)) \o toLowerCase(SubSeq(s, mid + 1, Len(s)))

\* String.prototype.slice(start) for a non-negative start
slice(s, start) == SubSeq(s, start + 1, Len(s))

HexVal(c) ==
    CASE c = "0" -> 0 [] c = "1" -> 1 [] c = "2" -> 2 [] c = "3" -> 3
      [] c = "4" -> 4 [] c = "5" -> 5 [] c = "6" -> 6 [] c = "7" -> 7
      [] c = "8" -> 8 [] c = "9" -> 9
      [] c \in {"a", "A"} -> 10 [] c \in {"b", "B"} -> 11
      [] c \in {"c", "C"} -> 12 [] c \in {"d", "D"} -> 13
      [] c \in {"e", "E"} -> 14 [] c \in {"f", "F"} -> 15

\* the least position from `from` on whose character is not in `chars`
\* (Len(s) + 1 when there is none)
FirstNotIn(s, from, chars) ==
    LET stop == { i \in from..Len(s) : CharAt(s, i) \notin chars }
    IN  IF stop = {} THEN Len(s) + 1
        ELSE CHOOSE i \in stop : \A j \in stop : i <= j

\* value of the hex digits s[lo..hi]
RECURSIVE HexValue(_, _, _)
HexValue(s, lo, hi) ==
    IF hi < lo THEN 0
    ELSE HexValue(s, lo, hi - 1) * 16 + HexVal(CharAt(s, hi))

\* the longest run of hex digits of s from position `from` on: NaN when it is
\* empty, else its value (leading zeros add nothing and are passed over).
\* `hex` holds the significant digits.  A run of more than seven of them is at
\* least 16^7 = 268435456 and beyond the integers of the checker: then `big`
\* is set, v is that lower bound (enough for the comparisons of the scan) and
\* the value itself is the one `hex` spells (the code holds the nearest double).
HexPrefix(s, from) ==
    LET end == FirstNotIn(s, from, HexDigits)
        sig == FirstNotIn(SubSeq(s, 1, end - 1), from, {"0"})
        hex == SubSeq(s, sig, end - 1)
    IN  IF end - sig > 7
        THEN [nan |-> FALSE, big |-> TRUE, v |-> 268435456, hex |-> hex]
        ELSE [nan |-> end = from, big |-> FALSE, v |-> HexValue(s, sig, end - 1), hex |-> hex]

\* the vertical tab U+000B, which has no escape: the literal holds the character
VerticalTab == ""

\* the white space of \s and of parseInt that a string of the model can
\* carry: space, tab, line feed, vertical tab, form feed, carriage return (the
\* non-ASCII spaces U+00A0, U+FEFF, U+2028, U+2029 and the Zs class cannot be
\* written in a string of the model)
WhiteSpace == {" ", "\t", "\n", VerticalTab, "\f", "\r"}

\* parseInt(x, 16): leading white space, an optional sign, an optional 0x/0X
\* prefix, then the longest run of hex digits; NaN when the run is empty.
\* undefined is converted to "undefined", which has no leading hex digit.
parseInt16(x) ==
    IF x = Undefined THEN [nan |-> TRUE, big |-> FALSE, v |-> 0, hex |-> ""]
    ELSE LET start == FirstNotIn(x, 1, WhiteSpace)
             signed == start <= Len(x) /\ CharAt(x, start) \in {"+", "-"}
             digits == IF signed THEN start + 1 ELSE start
             prefixed == digits + 1 <= Len(x) /\ SubSeq(x, digits, digits + 1) \in {"0x", "0X"}
             run == HexPrefix(x, IF prefixed THEN digits + 2 ELSE digits)
         IN  [nan |-> run.nan, big |-> run.big, hex |-> run.hex,
              v |-> IF signed /\ CharAt(x, start) = "-" THEN 0 - run.v ELSE run.v]

\* a value that `!v` treats as absent
Falsy(v) == v = Undefined \/ v = ""

----------------------------------------------------------------------------
(* Crypto payment verifier: input validation *)

\* /^0x[a-fA-F0-9]{64}$/.test(txHash)
IsTxHash(s) ==
    /\ Len(s) = 2 + TxHashHexLen
    /\ SubSeq(s, 1, 2) = "0x"
    /\ \A i \in 3..Len(s) : CharAt(s, i) \in HexDigits

\* /^[^\s@]+@[^\s@]+\.[^\s@]+$/.test(email)
IsEmail(s) ==
    \E i \in 2..Len(s) : \E j \in (i + 2)..(Len(s) - 1) :
        /\ CharAt(s, i) = "@"
        /\ CharAt(s, j) = "."
        /\ \A k \in 1..Len(s) :
              k # i => CharAt(s, k) \notin (WhiteSpace \cup {"@"})

ErrRequired == "Email and transaction hash are required"
ErrHashFormat == "Invalid transaction hash format"
ErrEmailFormat == "Invalid email format"
ErrNotFound == "Transaction not found or failed. Please check the hash and try again."
ErrNoTransfer == "No valid USDC transfer found in this transaction. Please check the transaction hash."
ErrGeneric == "Verification failed. Please email felix@masinov.co with your transaction hash."

\* the hash format is tested after the email format
ValidateInputEmailFirst(email, txHash) ==
    IF Falsy(email) \/ Falsy(txHash) THEN ErrRequired
    ELSE IF ~IsEmail(email) THEN ErrEmailFormat
    ELSE IF ~IsTxHash(txHash) THEN ErrHashFormat
    ELSE ""

\* the three fail-fast checks; "" when all pass
ValidateInput(email, txHash) ==
    IF Falsy(email) \/ Falsy(txHash) THEN ErrRequired
    ELSE IF ~IsTxHash(txHash) THEN ErrHashFormat
    ELSE IF ~IsEmail(email) THEN ErrEmailFormat
    ELSE ""

Json(status, body) == [status |-> status, body |-> body]
NoResponse == Json(0, [none |-> TRUE])

----------------------------------------------------------------------------
(* Crypto payment verifier: receipt interpretation *)

\* (process.env.CRYPTO_RECEIVING_WALLET || '').toLowerCase(), evaluated once
\* when the module is loaded
LoadReceivingWallet(value) == toLowerCase(IF Falsy(value) THEN "" ELSE value)

\* the module constant RECEIVING_WALLET
RECEIVING_WALLET == env.RECEIVING_WALLET

\* USDC_CONTRACT.toLowerCase()
USDC_CONTRACT_LOWER == toLowerCase(USDC_CONTRACT)

\* the receipt check accepts every non-null receipt, whatever its status
ReceiptMissingOnly(r) == r.kind # "receipt"

\* !txReceipt || txReceipt.status !== '0x1'
ReceiptMissingOrFailed(r) == r.kind # "receipt" \/ r.status # "0x1"

Continue == [kind |-> "continue"]
Throw == [kind |-> "throw"]
Valid(amount) ==
    [kind |-> "return", valid |-> TRUE,
     amount |-> [whole |-> amount \div USDC_DECIMALS, micro |-> amount % USDC_DECIMALS]]
\* the amount the reason string shows: the number, or for a value beyond the
\* integers of the checker its sign and its hex digits
Shown(amount) ==
    IF amount.big THEN [negative |-> amount.v < 0, hex |-> amount.hex] ELSE amount.v

Below(amount) ==
    [kind |-> "return", valid |-> FALSE, reason |-> "below the required amount",
     shown |-> Shown(amount)]
NoTransfer == [kind |-> "return", valid |-> FALSE, reason |-> ErrNoTransfer]

\* an amount under the minimum is skipped like one over the maximum
LogStepSkipBelow(log) ==
    IF log.address = Undefined THEN Throw
    ELSE IF toLowerCase(log.address) # USDC_CONTRACT_LOWER THEN Continue
    ELSE IF Len(log.topics) = 0 \/ log.topics[1] # TRANSFER_TOPIC THEN Continue
    ELSE IF Len(log.topics) < 3 \/ log.topics[3] = Undefined THEN Throw
    ELSE LET toAddress == "0x" \o toLowerCase(slice(log.topics[3], TopicAddrOffset))
             amount == parseInt16(log.data)
         IN  IF RECEIVING_WALLET # "" /\ toAddress # RECEIVING_WALLET THEN Continue
             ELSE IF amount.nan THEN Continue
             ELSE IF amount.v >= MIN_AMOUNT /\ amount.v <= MAX_AMOUNT THEN Valid(amount.v)
             ELSE Continue

\* the destination is not compared with the receiving wallet
LogStepAnyDestination(log) ==
    IF log.address = Undefined THEN Throw
    ELSE IF toLowerCase(log.address) # USDC_CONTRACT_LOWER THEN Continue
    ELSE IF Len(log.topics) = 0 \/ log.topics[1] # TRANSFER_TOPIC THEN Continue
    ELSE IF Len(log.topics) < 3 \/ log.topics[3] = Undefined THEN Throw
    ELSE LET amount == parseInt16(log.data)
         IN  IF amount.nan THEN Continue
             ELSE IF amount.v >= MIN_AMOUNT /\ amount.v <= MAX_AMOUNT THEN Valid(amount.v)
             ELSE IF amount.v < MIN_AMOUNT THEN Below(amount)
             ELSE Continue

\* one iteration of the loop over receipt.logs: continue, return or throw.
\* log.topics is <<>> both for a missing and for an empty topics array (either
\* way the iteration continues); indices are 1-based, so topics[2] is topics[3],
\* and slicing it raises when it is absent, undefined or null.
LogStep(log) ==
    IF log.address = Undefined THEN Throw
    ELSE IF toLowerCase(log.address) # USDC_CONTRACT_LOWER THEN Continue
    ELSE IF Len(log.topics) = 0 \/ log.topics[1] # TRANSFER_TOPIC THEN Continue
    ELSE IF Len(log.topics) < 3 \/ log.topics[3] = Undefined THEN Throw
    ELSE LET toAddress == "0x" \o toLowerCase(slice(log.topics[3], TopicAddrOffset))
             amount == parseInt16(log.data)
         IN  IF RECEIVING_WALLET # "" /\ toAddress # RECEIVING_WALLET THEN Continue
             ELSE IF amount.nan THEN Continue
             ELSE IF amount.v >= MIN_AMOUNT /\ amount.v <= MAX_AMOUNT THEN Valid(amount.v)
             ELSE IF amount.v < MIN_AMOUNT THEN Below(amount)
             ELSE Continue

RECURSIVE ScanFrom(_, _)
ScanFrom(logs, i) ==
    IF i > Len(logs) THEN NoTransfer
    ELSE LET step == LogStep(logs[i])
         IN  IF step.kind = "continue" THEN ScanFrom(logs, i + 1) ELSE step

\* for (const log of receipt.logs || []) { ... } return { valid: false, ... }
verifyUSDCTransfer(receipt) == ScanFrom(receipt.logs, 1)

----------------------------------------------------------------------------
(* Crypto payment verifier: the requests and RPC answers explored *)

GoodHash == "0x" \o Rep("a", TxHashHexLen)
MixedHash == "0x" \o Rep("A", TxHashHexLen - 2) \o "f9"

TxHashes ==
    { Undefined, "", GoodHash, MixedHash,
      "0x" \o Rep("a", TxHashHexLen - 1),          \* one digit short
      "0x" \o Rep("a", TxHashHexLen + 1),          \* one digit long
      "0x" \o Rep("a", TxHashHexLen - 1) \o "g",   \* not a hex digit
      "0X" \o Rep("a", TxHashHexLen),              \* upper-case prefix
      Rep("a", TxHashHexLen + 2) }                 \* no prefix

Emails ==
    { Undefined, "", "buyer@example.com", "buyer@example",
      "buyer example@x.com", "a\r@b.c", "a" \o VerticalTab \o "b@c.d", "a@@b.c", "@b.c", "a@b.", "a@.c", "buyerexample.com" }

\* req.body as the platform hands it over: a string still to be parsed, a parsed
\* object, or nothing, the JSON text then arriving in chunks on the stream
BodyShapes ==
    { [src |-> "string", chunks |-> 0], [src |-> "object", chunks |-> 0] }
    \cup { [src |-> "stream", chunks |-> n] : n \in 1..MaxChunks }

CryptoBody(shape, kind, email, txHash) ==
    [src |-> shape.src, chunks |-> shape.chunks, kind |-> kind, email |-> email, txHash |-> txHash]

CryptoBodies ==
    { CryptoBody(sh, k, Undefined, Undefined) :
        sh \in { x \in BodyShapes : x.src # "object" }, k \in {"badJson", "null"} }
    \cup { CryptoBody(sh, "object", e, h) :
             sh \in { x \in BodyShapes : x.src = "string" }, e \in Emails, h \in TxHashes }
    \cup { CryptoBody(sh, "object", e, h) :
             sh \in { x \in BodyShapes : x.src # "string" },
             e \in {Undefined, "buyer@example.com", "a@@b.c"},
             h \in {GoodHash, "0X" \o Rep("a", TxHashHexLen)} }

CryptoRequests ==
    { [method |-> m, body |-> b] : m \in {"OPTIONS", "GET", "POST"}, b \in CryptoBodies }

WalletAddr == "0x" \o Rep("Ab", 20)
OtherAddr == "0x" \o Rep("cd", 20)

\* a 32-byte word holding the given hex digits, left-padded with zeros
Word(hex) == "0x" \o Rep("0", 64 - Len(hex)) \o hex

TopicOf(addr) == Word(slice(addr, 2))
FromTopic == Word(Rep("12", 20))
ApprovalTopic == "0x8c5be1e5ebec7d5bd14f71427d1e84f3dd0314c0f7b2291e5b200ac8c7c3b925"

TransferLog(address, to, data) ==
    [address |-> address, topics |-> <<TRANSFER_TOPIC, FromTopic, TopicOf(to)>>, data |-> data]

LogKinds ==
    { TransferLog(USDC_CONTRACT, WalletAddr, Word("1ba8140")),                 \* 29000000
      TransferLog(toLowerCase(USDC_CONTRACT), toLowerCase(WalletAddr), Word("1ab3f00")), \* 28000000
      TransferLog(USDC_CONTRACT, WalletAddr, Word("2160ec0")),                 \* 35000000
      TransferLog(USDC_CONTRACT, WalletAddr, Word("1ab3eff")),                 \* 27999999
      TransferLog(USDC_CONTRACT, WalletAddr, Word("2160ec1")),                 \* 35000001
      TransferLog(USDC_CONTRACT, WalletAddr, Word(Rep("f", 64))),              \* 2^256 - 1
      TransferLog(USDC_CONTRACT, OtherAddr, Word("1ba8140")),                  \* other destination
      TransferLog(OtherAddr, WalletAddr, Word("1ba8140")),                     \* other token
      [address |-> USDC_CONTRACT, topics |-> <<ApprovalTopic, FromTopic, TopicOf(WalletAddr)>>,
       data |-> Word("1ba8140")],                                              \* other event
      [address |-> USDC_CONTRACT, topics |-> <<>>, data |-> Word("1ba8140")],  \* no topics
      [address |-> USDC_CONTRACT, topics |-> <<TRANSFER_TOPIC>>, data |-> Word("1ba8140")],
      [address |-> USDC_CONTRACT, topics |-> <<TRANSFER_TOPIC, FromTopic, Undefined>>,
       data |-> Word("1ba8140")],                                              \* null destination
      [address |-> Undefined, topics |-> <<TRANSFER_TOPIC, FromTopic, TopicOf(WalletAddr)>>,
       data |-> Word("1ba8140")],                                              \* no address
      TransferLog(USDC_CONTRACT, WalletAddr, "0x"),                            \* empty data
      TransferLog(USDC_CONTRACT, WalletAddr, Undefined) }                      \* no data

LogLists == UNION { [1..n -> LogKinds] : n \in 0..MaxLogs }

NoLogs == <<>>
Failure(kind) == [kind |-> kind, status |-> Undefined, logs |-> NoLogs]

\* what `await fetchTxReceipt(txHash)` can produce: fetch() rejects, the body is
\* not JSON, the body is JSON null, result is null or absent, or a receipt
RpcOutcomes ==
    { Failure("networkError"), Failure("notJson"), Failure("jsonNull"), Failure("resultNull") }
    \cup { [kind |-> "receipt", status |-> "0x1", logs |-> l] : l \in LogLists }
    \cup { [kind |-> "receipt", status |-> st, logs |-> l] :
             st \in {"0x0", Undefined}, l \in { ll \in LogLists : Len(ll) <= 1 } }

NoReceipt == Failure("none")
NoTransferYet == [kind |-> "none"]

----------------------------------------------------------------------------
(* Crypto payment verifier: the handler *)

CryptoSuccess ==
    Json(200, [success |-> TRUE, downloadUrl |-> DOWNLOAD_URL, thankYouUrl |-> THANK_YOU_URL,
               message |-> "Payment verified! Your download is ready."])

\* a rejected fetch or a failed parse is answered like a success
VerificationErrorAsSuccess == CryptoSuccess

\* catch (err) { return res.status(500).json(...) }
VerificationErrorResponse == Json(500, [error |-> ErrGeneric])

\* an email failure is reported to the buyer as an error
CryptoEmailResponseStrict(ok) ==
    IF ok THEN CryptoSuccess ELSE Json(500, [error |-> "Failed to send email"])

\* the inner try/catch swallows a send failure; the success response follows
CryptoEmailResponse(ok) == CryptoSuccess

Finish(response) ==
    /\ res' = response
    /\ pc' = "done"

\* the body is in hand: parse it, validate the fields, call fetchTxReceipt
CryptoAfterBody ==
    IF req.body.kind = "badJson"
    THEN Finish(Json(400, [error |-> "Invalid JSON body"])) /\ UNCHANGED rpcCalls
    ELSE IF req.body.kind = "null"
    THEN \* destructuring null throws outside every try block
         pc' = "crashed" /\ UNCHANGED <<res, rpcCalls>>
    ELSE LET err == ValidateInput(req.body.email, req.body.txHash)
         IN  IF err # ""
             THEN Finish(Json(400, [error |-> err])) /\ UNCHANGED rpcCalls
             ELSE /\ rpcCalls' = rpcCalls + 1
                  /\ pc' = "awaitRpc"
                  /\ UNCHANGED res

\* entry of the handler: the method checks, then either the body is at hand
\* (string or object) or the handler suspends on the request stream
CryptoEntry ==
    /\ handler = "crypto"
    /\ pc = "start"
    /\ UNCHANGED <<handler, env, req, chunksRead, bodyRead, rpcReturned, txReceipt, transfer,
                   logsInspected, emailAttempts, emailOk, threw>>
    /\ IF req.method = "OPTIONS"
       THEN Finish(Json(200, [end |-> TRUE])) /\ UNCHANGED rpcCalls
       ELSE IF req.method # "POST"
       THEN Finish(Json(405, [error |-> "Method not allowed"])) /\ UNCHANGED rpcCalls
       ELSE IF req.body.src = "stream"
       THEN pc' = "awaitBody" /\ UNCHANGED <<res, rpcCalls>>
       ELSE CryptoAfterBody

\* for await (const chunk of req) chunks.push(chunk): one chunk arrives
CryptoReadChunk ==
    /\ handler = "crypto"
    /\ pc = "awaitBody"
    /\ chunksRead < req.body.chunks
    /\ chunksRead' = chunksRead + 1
    /\ UNCHANGED <<handler, env, req, pc, bodyRead, res, rpcCalls, rpcReturned, txReceipt,
                   transfer, logsInspected, emailAttempts, emailOk, threw>>

\* the stream fails while it is read: the rejection is caught with the parse errors
CryptoBodyFail ==
    /\ handler = "crypto"
    /\ pc = "awaitBody"
    /\ bodyRead' = "failed"
    /\ Finish(Json(400, [error |-> "Invalid JSON body"]))
    /\ UNCHANGED <<handler, env, req, chunksRead, rpcCalls, rpcReturned, txReceipt,
                   transfer, logsInspected, emailAttempts, emailOk, threw>>

\* the stream ends: the handler resumes and runs up to the fetchTxReceipt call
CryptoBodyEnd ==
    /\ handler = "crypto"
    /\ pc = "awaitBody"
    /\ chunksRead = req.body.chunks
    /\ bodyRead' = "ok"
    /\ CryptoAfterBody
    /\ UNCHANGED <<handler, env, req, chunksRead, rpcReturned, txReceipt,
                   transfer, logsInspected, emailAttempts, emailOk, threw>>

\* the RPC call settles; the handler runs up to the email send or a response
RpcReturn ==
    /\ handler = "crypto"
    /\ pc = "awaitRpc"
    /\ \E out \in RpcOutcomes :
        /\ rpcReturned' = TRUE
        /\ txReceipt' = out
        /\ UNCHANGED <<handler, env, req, chunksRead, bodyRead, rpcCalls, emailOk>>
        /\ IF out.kind \in {"networkError", "notJson", "jsonNull"}
           THEN /\ threw' = TRUE
                /\ Finish(VerificationErrorResponse)
                /\ UNCHANGED <<transfer, logsInspected, emailAttempts>>
           ELSE IF ReceiptMissingOrFailed(out)
           THEN /\ Finish(Json(400, [error |-> ErrNotFound]))
                /\ UNCHANGED <<transfer, logsInspected, emailAttempts, threw>>
           ELSE LET t == verifyUSDCTransfer(out)
                IN  /\ logsInspected' = TRUE
                    /\ transfer' = t
                    /\ IF t.kind = "throw"
                       THEN /\ threw' = TRUE
                            /\ Finish(VerificationErrorResponse)
                            /\ UNCHANGED emailAttempts
                       ELSE IF ~t.valid
                       THEN /\ Finish(Json(400, [error |-> t.reason]))
                            /\ UNCHANGED <<emailAttempts, threw>>
                       ELSE /\ emailAttempts' = emailAttempts + 1
                            /\ pc' = "awaitEmail"
                            /\ UNCHANGED <<res, threw>>

\* a failed send is attempted once more
CryptoEmailReturnRetry ==
    /\ handler = "crypto"
    /\ pc = "awaitEmail"
    /\ \E ok \in BOOLEAN :
        /\ emailOk' = IF ok THEN "sent" ELSE "failed"
        /\ IF ok \/ emailAttempts >= 2
           THEN Finish(CryptoEmailResponse(ok)) /\ UNCHANGED emailAttempts
           ELSE emailAttempts' = emailAttempts + 1 /\ UNCHANGED <<pc, res>>
    /\ UNCHANGED <<handler, env, req, chunksRead, bodyRead, rpcCalls, rpcReturned,
                   txReceipt, transfer, logsInspected, threw>>

\* the email send settles, either way; the handler responds
CryptoEmailReturn ==
    /\ handler = "crypto"
    /\ pc = "awaitEmail"
    /\ \E ok \in BOOLEAN :
        /\ emailOk' = IF ok THEN "sent" ELSE "failed"
        /\ Finish(CryptoEmailResponse(ok))
    /\ UNCHANGED <<handler, env, req, chunksRead, bodyRead, rpcCalls, rpcReturned,
                   txReceipt, transfer, logsInspected, emailAttempts, threw>>

----------------------------------------------------------------------------
(* Card webhook handler *)

\* the processor's signature scheme, abstractly: a tag binding key and message
Sign(key, msg) == [key |-> key, msg |-> msg]
NoSignature == Sign(Undefined, Undefined)

\* only the presence of the signature header is checked
constructEventThrowsUnlessPresent(rawBody, sig, webhookSecret, payload) ==
    sig = NoSignature

\* stripe.webhooks.constructEvent(rawBody, sig, webhookSecret) throws unless the
\* header carries the tag of the raw body under the secret and the body parses
constructEventThrows(rawBody, sig, webhookSecret, payload) ==
    \/ sig = NoSignature
    \/ Falsy(webhookSecret)
    \/ sig # Sign(webhookSecret, rawBody)
    \/ ~payload.json

\* the lower limit itself is treated as outside the band
AmountOutsideBandStrict(amount_total) ==
    amount_total <= CardMinCents \/ amount_total > CardMaxCents

\* session.amount_total < 2800 || session.amount_total > 3100
AmountOutsideBand(amount_total) ==
    amount_total < CardMinCents \/ amount_total > CardMaxCents

\* session.customer_details?.email || session.customer_email
CustomerEmail(session) ==
    IF ~Falsy(session.details_email) THEN session.details_email
    ELSE session.customer_email

\* try { await send; return 200 } catch { return 500 }
CardEmailResponse(ok) ==
    IF ok THEN Json(200, [received |-> TRUE, emailSent |-> TRUE])
    ELSE Json(500, [error |-> "Failed to send email", details |-> "send failed"])

WebhookSecret == "whsec_live"

CardAmounts ==
    ((CardMinCents - AmountSlack)..(CardMinCents + AmountSlack))
    \cup ((CardMaxCents - AmountSlack)..(CardMaxCents + AmountSlack))
    \cup {0, 2900}

MalformedPayload ==
    [json |-> FALSE, type |-> Undefined, amount_total |-> 0,
     details_email |-> Undefined, customer_email |-> Undefined]

CardPayloads ==
    {MalformedPayload}
    \cup { [json |-> TRUE, type |-> t, amount_total |-> a, details_email |-> d, customer_email |-> c] :
             t \in {"checkout.session.completed", "payment_intent.succeeded"},
             a \in CardAmounts,
             d \in {Undefined, "buyer@example.com"},
             c \in {Undefined, "", "alt@example.com"} }

\* the bytes of a payload
Serialize(payload) == IF payload.json THEN ToString(payload) ELSE "{not json"

SignaturesFor(rawBody) ==
    { NoSignature,
      Sign(WebhookSecret, rawBody),            \* signed by the processor
      Sign("whsec_forged", rawBody),           \* signed with another key
      Sign(WebhookSecret, "another body") }    \* a signature of other bytes

CardRequests ==
    UNION { { [method |-> m, sig |-> sg, rawBody |-> Serialize(p), payload |-> p] :
                m \in {"GET", "POST"}, sg \in SignaturesFor(Serialize(p)) } :
            p \in CardPayloads }

\* entry of the handler: the method check, then the handler suspends on
\* buffer(req)
CardEntry ==
    /\ handler = "card"
    /\ pc = "start"
    /\ IF req.method # "POST"
       THEN Finish(Json(405, [error |-> "Method not allowed"]))
       ELSE pc' = "awaitBody" /\ UNCHANGED res
    /\ UNCHANGED <<handler, env, req, chunksRead, bodyRead, rpcCalls, rpcReturned, txReceipt,
                   transfer, logsInspected, emailAttempts, emailOk, threw>>

\* buffer(req) settles; with the raw body the handler runs up to the email
\* send or a response.  A rejected buffer(req) is caught with the signature errors.
CardBodyRead ==
    /\ handler = "card"
    /\ pc = "awaitBody"
    /\ UNCHANGED <<handler, env, req, chunksRead, rpcCalls, rpcReturned, txReceipt, transfer,
                   logsInspected, emailOk, threw>>
    /\ \E ok \in BOOLEAN :
        /\ bodyRead' = IF ok THEN "ok" ELSE "failed"
        /\ IF ~ok \/ constructEventThrows(req.rawBody, req.sig, env.STRIPE_WEBHOOK_SECRET, req.payload)
           THEN Finish(Json(400, [error |-> "Webhook Error"])) /\ UNCHANGED emailAttempts
           ELSE LET session == req.payload
                IN  IF session.type = "checkout.session.completed"
                    THEN IF AmountOutsideBand(session.amount_total)
                         THEN /\ Finish(Json(200, [received |-> TRUE, skipped |-> TRUE]))
                              /\ UNCHANGED emailAttempts
                         ELSE IF Falsy(CustomerEmail(session))
                         THEN /\ Finish(Json(400, [error |-> "No customer email"]))
                              /\ UNCHANGED emailAttempts
                         ELSE /\ emailAttempts' = emailAttempts + 1
                              /\ pc' = "awaitEmail"
                              /\ UNCHANGED res
                    ELSE Finish(Json(200, [received |-> TRUE])) /\ UNCHANGED emailAttempts

\* the email send settles; the handler responds
CardEmailReturn ==
    /\ handler = "card"
    /\ pc = "awaitEmail"
    /\ \E ok \in BOOLEAN :
        /\ emailOk' = IF ok THEN "sent" ELSE "failed"
        /\ Finish(CardEmailResponse(ok))
    /\ UNCHANGED <<handler, env, req, chunksRead, bodyRead, rpcCalls, rpcReturned,
                   txReceipt, transfer, logsInspected, emailAttempts, threw>>

----------------------------------------------------------------------------
(* One request, from arrival to response *)

Init ==
    /\ \/ /\ handler = "crypto"
          /\ req \in CryptoRequests
          /\ env \in { [CRYPTO_RECEIVING_WALLET |-> w, RECEIVING_WALLET |-> LoadReceivingWallet(w),
                          STRIPE_WEBHOOK_SECRET |-> WebhookSecret] :
                         w \in {Undefined, WalletAddr} }
       \/ /\ handler = "card"
          /\ req \in CardRequests
          /\ env \in { [CRYPTO_RECEIVING_WALLET |-> Undefined,
                          RECEIVING_WALLET |-> LoadReceivingWallet(Undefined),
                          STRIPE_WEBHOOK_SECRET |-> k] :
                         k \in {Undefined, WebhookSecret} }
    /\ pc = "start"
    /\ chunksRead = 0
    /\ bodyRead = "none"
    /\ res = NoResponse
    /\ rpcCalls = 0
    /\ rpcReturned = FALSE
    /\ txReceipt = NoReceipt
    /\ transfer = NoTransferYet
    /\ logsInspected = FALSE
    /\ emailAttempts = 0
    /\ emailOk = "none"
    /\ threw = FALSE

Next ==
    \/ CryptoEntry
    \/ CryptoReadChunk
    \/ CryptoBodyFail
    \/ CryptoBodyEnd
    \/ RpcReturn
    \/ CryptoEmailReturn
    \/ CardEntry
    \/ CardBodyRead
    \/ CardEmailReturn

Spec == Init /\ [][Next]_vars

----------------------------------------------------------------------------
(* Vocabulary of the properties *)

Card == handler = "card"
Crypto == handler = "crypto"
Responded == pc = "done"
BodyInHand == pc \notin {"start", "awaitBody"}
HasDownloadUrl == "downloadUrl" \in DOMAIN res.body
IsError(status, text) == res.status = status /\ res.body = [error |-> text]

\* the inputs that the two patterns are expected to accept
WellFormedHashes == {GoodHash, MixedHash}
WellFormedEmails == {"buyer@example.com"}

\* the raw body was read, the signature header is its tag under the configured
\* secret, and the payload decodes
SignatureVerifies ==
    /\ bodyRead = "ok"
    /\ ~Falsy(env.STRIPE_WEBHOOK_SECRET)
    /\ req.sig.key = env.STRIPE_WEBHOOK_SECRET
    /\ req.sig.msg = req.rawBody
    /\ req.payload.json

VerifiedCheckoutWithEmail ==
    /\ Card /\ req.method = "POST" /\ SignatureVerifies
    /\ req.payload.type = "checkout.session.completed"
    /\ \/ ~Falsy(req.payload.details_email)
       \/ ~Falsy(req.payload.customer_email)

InCardBand(a) == a \in CardMinCents..CardMaxCents

\* the token contract's address in lower case
TokenAddressLower == "0x833589fcd6edb6e08f4c7c32d4f71b54bda02913"

\* the low 20 bytes of a 32-byte topic word, as a lower-case address
Low20(word) == "0x" \o toLowerCase(SubSeq(word, Len(word) - 39, Len(word)))

IsWord(w) == w # Undefined /\ Len(w) = 66 /\ SubSeq(w, 1, 2) = "0x"

WellFormedLog(log) ==
    /\ log.address # Undefined
    /\ \A k \in 1..Len(log.topics) : IsWord(log.topics[k])
    /\ (Len(log.topics) > 0 /\ log.topics[1] = TRANSFER_TOPIC) => Len(log.topics) >= 3
    /\ IsWord(log.data)

Matches(log) ==
    /\ toLowerCase(log.address) = TokenAddressLower
    /\ Len(log.topics) >= 3
    /\ log.topics[1] = TRANSFER_TOPIC
    /\ log.topics[3] # Undefined
    /\ Falsy(env.CRYPTO_RECEIVING_WALLET)
         \/ Low20(log.topics[3]) = toLowerCase(env.CRYPTO_RECEIVING_WALLET)

AmountOf(log) == parseInt16(log.data).v

\* the scan as the specification words it: the first matching log whose amount
\* is not above the maximum decides; without one there is no valid transfer
ReferenceScan(logs) ==
    LET deciding == { i \in 1..Len(logs) : Matches(logs[i]) /\ AmountOf(logs[i]) <= MAX_AMOUNT }
    IN  IF deciding = {} THEN NoTransfer
        ELSE LET first == CHOOSE i \in deciding : \A j \in deciding : i <= j
                 a == AmountOf(logs[first])
             IN  IF a >= MIN_AMOUNT
                 THEN [kind |-> "return", valid |-> TRUE,
                       amount |-> [whole |-> a \div 1000000, micro |-> a % 1000000]]
                 ELSE [kind |-> "return", valid |-> FALSE,
                       reason |-> "below the required amount", shown |-> a]

Qualifies(log) ==
    /\ log.address # Undefined
    /\ Matches(log)
    /\ ~parseInt16(log.data).nan
    /\ AmountOf(log) \in MIN_AMOUNT..MAX_AMOUNT

\* the log raises when the loop reaches it
LogRaises(log) ==
    \/ log.address = Undefined
    \/ /\ toLowerCase(log.address) = TokenAddressLower
       /\ Len(log.topics) >= 1
       /\ log.topics[1] = TRANSFER_TOPIC
       /\ Len(log.topics) <= 2 \/ log.topics[3] = Undefined

InputValid ==
    /\ req.method = "POST"
    /\ req.body.kind = "object"
    /\ req.body.email \in WellFormedEmails
    /\ req.body.txHash \in WellFormedHashes

----------------------------------------------------------------------------
(* Properties *)

\* C1: in the card webhook handler, for a signature-verified checkout-completed
\* event whose amount is in [2800, 3100] and which carries a buyer email, a
\* failed email dispatch still ends in the 200 {received: true} acknowledgement
\* that a successful dispatch gets.  The handler does not keep this: the catch
\* of lines 292-295 answers 500 'Failed to send email'.
C1_DispatchFailureStillAcknowledged ==
    (/\ VerifiedCheckoutWithEmail /\ InCardBand(req.payload.amount_total)
     /\ Responded /\ emailOk = "failed") =>
        /\ res.status = 200
        /\ res.body.received = TRUE

\* C2: the card webhook handler fails closed: a POST whose signature does not
\* verify is answered 400 with no email send, and an email send is attempted
\* only for a request whose signature verified.
C2_SignatureFailsClosed ==
    /\ (Card /\ BodyInHand /\ req.method = "POST" /\ ~SignatureVerifies) =>
          res.status = 400 /\ emailAttempts = 0 /\ Responded
    /\ (Card /\ emailAttempts > 0) => SignatureVerifies

C2_Witness ==
    /\ Card /\ Responded /\ req.method = "POST"
    /\ req.sig = Sign("whsec_forged", req.rawBody)
    /\ req.payload.json /\ InCardBand(req.payload.amount_total)
    /\ req.payload.type = "checkout.session.completed"
    /\ res.status = 400

\* C3: for a verified checkout-completed event with a buyer email, an amount in
\* [2800, 3100] leads to an email send attempt, and an amount outside it leads
\* to no send and a 200 response marked skipped.
C3_AmountBandDecidesSend ==
    (VerifiedCheckoutWithEmail /\ BodyInHand) =>
        IF InCardBand(req.payload.amount_total)
        THEN emailAttempts = 1
        ELSE /\ emailAttempts = 0
             /\ res = Json(200, [received |-> TRUE, skipped |-> TRUE])

C3_Witness ==
    /\ VerifiedCheckoutWithEmail /\ pc = "awaitEmail"
    /\ req.payload.amount_total = CardMinCents
    /\ emailAttempts = 1

\* C4: the crypto verifier validates in the order presence, hash format, email
\* format; the first failing check alone fixes the 400 reason, and a request
\* failing any of them causes neither an RPC call nor an email send.
C4_ValidationOrder ==
    (Crypto /\ BodyInHand /\ req.method = "POST" /\ req.body.kind = "object"
       /\ bodyRead # "failed") =>
        LET e == req.body.email
            h == req.body.txHash
            quiet == rpcCalls = 0 /\ emailAttempts = 0
        IN  /\ (Falsy(e) \/ Falsy(h)) => IsError(400, ErrRequired) /\ quiet
            /\ (~Falsy(e) /\ ~Falsy(h) /\ h \notin WellFormedHashes) =>
                   IsError(400, ErrHashFormat) /\ quiet
            /\ (~Falsy(e) /\ h \in WellFormedHashes /\ e \notin WellFormedEmails) =>
                   IsError(400, ErrEmailFormat) /\ quiet

C4_Witness ==
    /\ Crypto /\ Responded /\ req.method = "POST" /\ req.body.kind = "object"
    /\ req.body.email = "a@@b.c"
    /\ req.body.txHash = "0X" \o Rep("a", TxHashHexLen)
    /\ IsError(400, ErrHashFormat)

\* C5: on a receipt with well-formed logs, verifyUSDCTransfer returns what the
\* reference scan returns: the first matching log with an amount in
\* [28000000, 35000000] makes it valid, an earlier matching log under 28000000
\* makes it invalid as below the required amount, matching logs over 35000000
\* are passed over, and otherwise there is no valid transfer.
C5_ScanMatchesReference ==
    (Crypto /\ logsInspected /\ \A i \in 1..Len(txReceipt.logs) : WellFormedLog(txReceipt.logs[i])) =>
        transfer = ReferenceScan(txReceipt.logs)

C5_Witness ==
    /\ Crypto /\ logsInspected /\ Len(txReceipt.logs) = 2
    /\ \A i \in 1..2 : WellFormedLog(txReceipt.logs[i]) /\ Matches(txReceipt.logs[i])
    /\ AmountOf(txReceipt.logs[1]) = MIN_AMOUNT - 1
    /\ AmountOf(txReceipt.logs[2]) = 29000000
    /\ transfer.kind = "return" /\ ~transfer.valid
    /\ transfer.reason = "below the required amount"

\* C6: once the transfer is verified as valid, the crypto verifier answers 200
\* with success and the fixed download and thank-you URLs, whether the email
\* dispatch succeeded or failed.
C6_ValidTransferAlwaysSucceeds ==
    (Crypto /\ Responded /\ transfer.kind = "return" /\ transfer.valid) =>
        /\ res.status = 200
        /\ res.body.success = TRUE
        /\ res.body.downloadUrl = "https://felixcraft.ai/dl/c5768e3409026bab01bb1649.pdf"
        /\ res.body.thankYouUrl = "https://felixcraft.ai/168a1eb2dd92fd596ac191d4"

C6_Witness ==
    /\ Crypto /\ Responded /\ transfer.kind = "return" /\ transfer.valid
    /\ emailOk = "failed" /\ res.status = 200

\* C7: when the RPC call yields no receipt or a receipt whose status is not
\* 0x1, the crypto verifier answers 400 "not found or failed", does not inspect
\* the logs and attempts no email send.
C7_MissingOrFailedReceipt ==
    (Crypto /\ rpcReturned /\
       (txReceipt.kind = "resultNull" \/ (txReceipt.kind = "receipt" /\ txReceipt.status # "0x1"))) =>
        /\ IsError(400, ErrNotFound)
        /\ ~logsInspected
        /\ emailAttempts = 0

C7_Witness ==
    /\ Crypto /\ Responded /\ txReceipt.kind = "receipt" /\ txReceipt.status = "0x0"
    /\ Len(txReceipt.logs) = 1 /\ Qualifies(txReceipt.logs[1])
    /\ res.status = 400

\* C8: an error raised while fetching or interpreting the receipt (the fetch
\* rejects, the answer is not JSON or is JSON null, the scan reaches a log
\* without the fields it reads) ends in the generic 500 response, with no email
\* send and no download URL.
C8_UnexpectedErrorIsGeneric500 ==
    /\ (Crypto /\ rpcReturned /\ txReceipt.kind \in {"networkError", "notJson", "jsonNull"}) => threw
    /\ (Crypto /\ rpcReturned /\ txReceipt.kind = "receipt" /\ txReceipt.status = "0x1"
          /\ Len(txReceipt.logs) >= 1 /\ LogRaises(txReceipt.logs[1])) => threw
    /\ threw =>
          /\ Responded
          /\ IsError(500, ErrGeneric)
          /\ emailAttempts = 0
          /\ ~HasDownloadUrl

C8_Witness ==
    /\ Crypto /\ Responded /\ txReceipt.kind = "receipt" /\ Len(txReceipt.logs) = 2
    /\ ~LogRaises(txReceipt.logs[1])
    /\ txReceipt.logs[2].topics = <<TRANSFER_TOPIC>>
    /\ threw /\ res.status = 500

\* C9: one request causes at most one email send attempt in either handler; the
\* crypto verifier makes at most one RPC call, and attempts its email send only
\* after that call has returned.
C9_AtMostOneAttempt ==
    /\ emailAttempts <= 1
    /\ rpcCalls <= 1
    /\ (Crypto /\ emailAttempts > 0) => (rpcCalls = 1 /\ rpcReturned)
    /\ (pc \in {"start", "awaitBody", "awaitRpc"}) => emailAttempts = 0
    /\ (pc \in {"start", "awaitBody"}) => rpcCalls = 0

C9_Witness ==
    /\ Crypto /\ Responded /\ emailOk = "failed" /\ emailAttempts = 1 /\ rpcCalls = 1

\* C10: the crypto verifier answers with the download URL, or attempts an email
\* send, only for a POST that passed input validation and whose receipt has
\* status 0x1 and holds a Transfer log of the token contract, to the receiving
\* wallet when one is configured, with an amount in [28000000, 35000000].
C10_DownloadOnlyAfterVerification ==
    (Crypto /\ (HasDownloadUrl \/ emailAttempts > 0)) =>
        /\ InputValid
        /\ txReceipt.kind = "receipt"
        /\ txReceipt.status = "0x1"
        /\ \E i \in 1..Len(txReceipt.logs) : Qualifies(txReceipt.logs[i])

C10_Witness ==
    /\ Crypto /\ HasDownloadUrl /\ ~Falsy(env.CRYPTO_RECEIVING_WALLET)
    /\ Len(txReceipt.logs) = 2
    /\ ~Qualifies(txReceipt.logs[1]) /\ Qualifies(txReceipt.logs[2])

====
